---- MODULE Spec2Model ----
(***************************************************************************)
(* Azure reservation recommendation tool: a model of                       *)
(* src/azure-reservation-analysis.py.                                      *)
(*                                                                         *)
(*   Spec        the matching loop of generate_vm_recommendations, one     *)
(*               advisor row per step, followed by the sort and the        *)
(*               high-impact selection.                                    *)
(*   SelectSpec  the sort and the high-impact selection on match lists     *)
(*               long enough to pass the minimum report size of 20.        *)
(*   ClassifySpec  the body of build_azure_pricing's loop for one input    *)
(*               row: the pay-as-you-go and reservation selection over a   *)
(*               fetched price list and the rows it emits.                 *)
(*   OrchSpec    generate_pricing_spreadsheets: the main thread, the       *)
(*               Azure API thread (one input row per step) and the         *)
(*               Selenium thread (one SKU-region pair per step), then the  *)
(*               merge by build_final_dataframes.                          *)
(***************************************************************************)
EXTENDS Integers, Sequences, FiniteSets, TLC

(***************************************************************************)
(* Bounds of the model.                                                    *)
(***************************************************************************)
MaxVMs == 4
MaxOpps == 2
MaxQty == 3
NumBlocks == 2
BlockMax == 11
MaxItems == 2
MaxInputs == 2
MaxGroupRows == 2

(***************************************************************************)
(* Program constants.                                                      *)
(***************************************************************************)
savings_threshold == 10
MinReport == 20
BackfillFloor == 1

VARIABLES
    vm_pool,            \* (size, lowercase region) -> list of VM names
    recommendations,    \* list of recommendations
    seen_vms,           \* VM names already claimed
    impact_recs,        \* the selected high-impact subset
    pc,                 \* position in generate_vm_recommendations
    opps,               \* advisor rows processed so far
    last,               \* the advisor row processed last and what it claimed
    os_type,            \* build_azure_pricing: the OS of the input row at hand
    prices,             \* the price items looked up for the row
    payg,               \* the pay-as-you-go items selected
    reservations,       \* the reservation items selected
    row_out,            \* the report rows emitted for the row
    cpc,                \* position in the loop body
    inputs,             \* inputs.json: the rows to price
    mpc,                \* position of the main thread
    apc,                \* position of the Azure API thread
    spc,                \* position of the Selenium thread
    a_i,                \* build_azure_pricing: index of the next input row
    price_cache,        \* build_azure_pricing: (sku, region) -> price list
    a_rows,             \* build_azure_pricing: its local estimate_rows
    fetches,            \* number of get_prices calls per (sku, region)
    s_left,             \* scrape_windows_pricing: pairs not visited yet
    s_data,             \* scrape_windows_pricing: azure_windows_pricing_data
    estimate_rows,      \* result container of the Azure API thread
    windows_pricing_data, \* result container of the Selenium thread
    exceptions,         \* the failures the threads report
    writers,            \* per object, the tasks that have written it
    outputs,            \* the files written by the merge
    df_final,           \* the as-quoted table
    df_savings,         \* the reconciled table
    df_ranked,          \* the ranked table
    group,              \* pool building: the inventory rows of one VM name
    vm_entry,           \* the pool entry built from the group
    entry_key,          \* the pool key the entry is appended under
    gpc                 \* position in the loop body over the groups

orchVars == <<inputs, mpc, apc, spc, a_i, price_cache, a_rows, fetches, s_left,
              s_data, estimate_rows, windows_pricing_data, exceptions, writers,
              outputs, df_final, df_savings, df_ranked>>

matchVars == <<vm_pool, recommendations, seen_vms, impact_recs, pc, opps, last>>

classVars == <<os_type, prices, payg, reservations, row_out, cpc>>

groupVars == <<group, vm_entry, entry_key, gpc>>

vars == <<matchVars, classVars, orchVars, groupVars>>

(***************************************************************************)
(* Small helpers on sequences.                                             *)
(***************************************************************************)
Range(s) == {s[i] : i \in 1..Len(s)}

Min(a, b) == IF a < b THEN a ELSE b

Max(a, b) == IF a > b THEN a ELSE b

\* s[:n] of Python
Take(s, n) == IF n <= 0 THEN <<>> ELSE SubSeq(s, 1, Min(n, Len(s)))

RECURSIVE Filter(_, _, _)
\* [x for x in s if keep[x]], keep given as the set of positions kept
Filter(s, i, keep) ==
    IF i > Len(s) THEN <<>>
    ELSE (IF i \in keep THEN <<s[i]>> ELSE <<>>) \o Filter(s, i + 1, keep)

(***************************************************************************)
(* Inventory: the running VMs, grouped by name.  pandas' groupby yields    *)
(* the groups in ascending order of the VM name, so every pool lists its   *)
(* VMs in ascending name order.                                            *)
(***************************************************************************)
VMNames == 1..MaxVMs

Sizes == {"Standard_D2s_v3", "Standard_D4s_v3"}

AdvisorSKUs == Sizes \cup {"Standard_D8s_v3"}

Locations == {"EastUS"}

AdvisorRegions == {"eastus"}

PowerStates == {"VM running", "VM deallocated"}

\* str.lower() on the region literals of the model
Lower(s) == IF s = "EastUS" THEN "eastus" ELSE s

PoolKey(size, location) == <<size, Lower(location)>>

PoolKeys == {PoolKey(s, l) : s \in AdvisorSKUs, l \in AdvisorRegions}

RECURSIVE PoolOf(_, _, _)
\* the VMs of one key, in groupby order, appended one by one
PoolOf(inv, key, n) ==
    IF n > MaxVMs THEN <<>>
    ELSE (IF inv[n].power = "VM running"
             /\ PoolKey(inv[n].size, inv[n].location) = key
          THEN <<n>> ELSE <<>>) \o PoolOf(inv, key, n + 1)

\* vm_pool.get(key, []) for every key: an absent key is the empty list
BuildPool(inv) == [k \in PoolKeys |-> PoolOf(inv, k, 1)]

Inventories ==
    [VMNames -> [size : Sizes, location : Locations, power : PowerStates]]

(***************************************************************************)
(* The matching loop.                                                      *)
(***************************************************************************)
RECURSIVE WalkNoDedup(_, _, _, _, _)
WalkNoDedup(pool, i, seen, selected, quantity) ==
    IF i > Len(pool) THEN <<>>
    ELSE <<pool[i]>> \o
         (IF selected + 1 >= quantity THEN <<>>
          ELSE WalkNoDedup(pool, i + 1, seen \cup {pool[i]}, selected + 1, quantity))

RECURSIVE WalkPoolOffByOne(_, _, _, _, _)
WalkPoolOffByOne(pool, i, seen, selected, quantity) ==
    IF i > Len(pool) THEN <<>>
    ELSE IF pool[i] \in seen
         THEN WalkPoolOffByOne(pool, i + 1, seen, selected, quantity)
         ELSE <<pool[i]>> \o
              (IF selected + 1 > quantity THEN <<>>
               ELSE WalkPoolOffByOne(pool, i + 1, seen \cup {pool[i]}, selected + 1, quantity))

RECURSIVE WalkPool(_, _, _, _, _)
\* for vm in pool: skip the VMs already seen, claim the others, stop once
\* selected >= quantity (tested after a claim)
WalkPool(pool, i, seen, selected, quantity) ==
    IF i > Len(pool) THEN <<>>
    ELSE IF pool[i] \in seen
         THEN WalkPool(pool, i + 1, seen, selected, quantity)
         ELSE <<pool[i]>> \o
              (IF selected + 1 >= quantity THEN <<>>
               ELSE WalkPool(pool, i + 1, seen \cup {pool[i]}, selected + 1, quantity))

\* the recommendations one advisor row appends
NewRecs(claimed, savings, n) ==
    [i \in 1..Len(claimed) |-> [vm |-> claimed[i], savings |-> savings, opp |-> n]]

SavingsValues == {1, 5, 10}

Quantities == 0..MaxQty

MatchOpportunity(sku, region, quantity, savings) ==
    LET key == PoolKey(sku, region)
        claimed == WalkPool(vm_pool[key], 1, seen_vms, 0, quantity)
    IN  /\ pc = "matching"
        /\ opps < MaxOpps
        /\ recommendations' = recommendations \o NewRecs(claimed, savings, opps + 1)
        /\ seen_vms' = seen_vms \cup Range(claimed)
        /\ opps' = opps + 1
        /\ last' = [key |-> key, quantity |-> quantity, before |-> seen_vms,
                    claimed |-> claimed]
        /\ UNCHANGED <<vm_pool, impact_recs, pc, classVars, orchVars, groupVars>>

(***************************************************************************)
(* Sorting and selecting.                                                  *)
(***************************************************************************)
RECURSIVE InsertDescBeforeEqual(_, _)
InsertDescBeforeEqual(s, r) ==
    IF s = <<>> THEN <<r>>
    ELSE IF Head(s).savings > r.savings
         THEN <<Head(s)>> \o InsertDescBeforeEqual(Tail(s), r)
         ELSE <<r>> \o s

RECURSIVE InsertDesc(_, _)
\* insert r behind every element whose savings are >= r's
InsertDesc(s, r) ==
    IF s = <<>> THEN <<r>>
    ELSE IF Head(s).savings >= r.savings
         THEN <<Head(s)>> \o InsertDesc(Tail(s), r)
         ELSE <<r>> \o s

RECURSIVE SortDesc(_)
\* list.sort(key=annual savings, reverse=True): stable
SortDesc(s) ==
    IF s = <<>> THEN <<>>
    ELSE InsertDesc(SortDesc(SubSeq(s, 1, Len(s) - 1)), s[Len(s)])

SelectImpactNoCap(recs) ==
    LET high == Filter(recs, 1, {i \in 1..Len(recs) : recs[i].savings >= savings_threshold})
        rest == Filter(recs, 1, {i \in 1..Len(recs) :
                                   /\ recs[i].savings > BackfillFloor
                                   /\ recs[i] \notin Range(high)})
    IN  high \o rest

SelectImpactFromEnd(recs) ==
    LET high == Filter(recs, 1, {i \in 1..Len(recs) : recs[i].savings >= savings_threshold})
        rest == Filter(recs, 1, {i \in 1..Len(recs) :
                                   /\ recs[i].savings > BackfillFloor
                                   /\ recs[i] \notin Range(high)})
        k == Min(MinReport - Len(high), Len(rest))
    IN  IF Len(high) < MinReport
        THEN high \o SubSeq(rest, Len(rest) - k + 1, Len(rest))
        ELSE high

\* impact_recs: the recommendations at or above the threshold, backfilled
\* to 20 from those above 1 that are not selected yet
SelectImpact(recs) ==
    LET high == Filter(recs, 1, {i \in 1..Len(recs) : recs[i].savings >= savings_threshold})
        rest == Filter(recs, 1, {i \in 1..Len(recs) :
                                   /\ recs[i].savings > BackfillFloor
                                   /\ recs[i] \notin Range(high)})
    IN  IF Len(high) < MinReport
        THEN high \o Take(rest, MinReport - Len(high))
        ELSE high

SortAndSelect ==
    /\ pc = "matching"
    /\ recommendations' = SortDesc(recommendations)
    /\ impact_recs' = SelectImpact(SortDesc(recommendations))
    /\ pc' = "done"
    /\ UNCHANGED <<vm_pool, seen_vms, opps, last, classVars, orchVars, groupVars>>

(***************************************************************************)
(* Price items of the retail price API.  A text (productName, meterName)   *)
(* is modelled by the set of lower-case marker words it contains, so that  *)
(* "w in text.lower()" is membership and concatenation is union.  Unit     *)
(* prices are whole dollars, monthly costs are cents.                      *)
(***************************************************************************)
ItemTexts ==
    { [productName |-> {},                    meterName |-> {}],
      [productName |-> {"windows"},           meterName |-> {}],
      [productName |-> {},                    meterName |-> {"spot"}],
      [productName |-> {"windows"},           meterName |-> {"low priority"}],
      [productName |-> {"spot"},              meterName |-> {}],
      [productName |-> {"windows", "hybrid"}, meterName |-> {}],
      [productName |-> {"windows"},           meterName |-> {"ahb"}] }

\* the reservationTerm texts of the price feed
Terms == {"1 Year", "3 Years", "5 Years"}

ConsumptionItems ==
    { [type |-> "Consumption", productName |-> t.productName, meterName |-> t.meterName,
       unitPrice |-> u, reservationTerm |-> ""] : t \in ItemTexts, u \in {1, 2} }

ReservationItems ==
    { [type |-> "Reservation", productName |-> t.productName, meterName |-> t.meterName,
       unitPrice |-> u, reservationTerm |-> term] :
         t \in ItemTexts, u \in {100, 120}, term \in Terms }

Items == ConsumptionItems \cup ReservationItems

OSTypes == {"Windows", "linux", ""}

\* str.lower() on the OS literals of the model
LowerOS(s) == IF s = "Windows" THEN "windows" ELSE IF s = "Linux" THEN "linux" ELSE s

\* OS filter; Spot and Low Priority are told by the meter name
matches_os(item, os_filter) ==
    IF "spot" \in item.meterName \/ "low priority" \in item.meterName THEN FALSE
    ELSE IF os_filter = "" THEN TRUE
    ELSE IF LowerOS(os_filter) = "windows"
         THEN "windows" \in item.productName \/ "windows" \in item.meterName
    ELSE IF LowerOS(os_filter) = "linux"
         THEN "windows" \notin item.productName /\ "windows" \notin item.meterName
    ELSE FALSE

RECURSIVE InsertAsc(_, _)
InsertAsc(s, p) ==
    IF s = <<>> THEN <<p>>
    ELSE IF Head(s).unitPrice <= p.unitPrice
         THEN <<Head(s)>> \o InsertAsc(Tail(s), p)
         ELSE <<p>> \o s

RECURSIVE SortByUnitPrice(_)
\* sorted(payg, key=unitPrice): stable, ascending
SortByUnitPrice(s) ==
    IF s = <<>> THEN <<>>
    ELSE InsertAsc(SortByUnitPrice(SubSeq(s, 1, Len(s) - 1)), s[Len(s)])

\* the pay-as-you-go items of one input row
SelectPayg(ps, os) ==
    LET matching == Filter(ps, 1, {i \in 1..Len(ps) :
                                     ps[i].type = "Consumption" /\ matches_os(ps[i], os)})
    IN  IF LowerOS(os) = "linux" THEN Take(SortByUnitPrice(matching), 1) ELSE matching

\* "ahb" or "hybrid" in (productName + meterName).lower()
HasLicenseMarker(p) == \E w \in {"ahb", "hybrid"} : w \in p.productName \cup p.meterName

RECURSIVE by_term_lowest(_, _, _)
by_term_lowest(res, i, acc) ==
    IF i > Len(res) THEN acc
    ELSE LET p == res[i]
             at == {j \in 1..Len(acc) : acc[j].reservationTerm = p.reservationTerm}
         IN  IF at = {}
             THEN by_term_lowest(res, i + 1, Append(acc, p))
             ELSE LET j == CHOOSE k \in at : TRUE
                  IN  IF p.unitPrice < acc[j].unitPrice
                      THEN by_term_lowest(res, i + 1, [acc EXCEPT ![j] = p])
                      ELSE by_term_lowest(res, i + 1, acc)

RECURSIVE by_term(_, _, _)
\* the dict by_term, as the list of its values in insertion order: a term's
\* entry is replaced by an item of that term with a strictly higher price
by_term(res, i, acc) ==
    IF i > Len(res) THEN acc
    ELSE LET p == res[i]
             at == {j \in 1..Len(acc) : acc[j].reservationTerm = p.reservationTerm}
         IN  IF at = {}
             THEN by_term(res, i + 1, Append(acc, p))
             ELSE LET j == CHOOSE k \in at : TRUE
                  IN  IF p.unitPrice > acc[j].unitPrice
                      THEN by_term(res, i + 1, [acc EXCEPT ![j] = p])
                      ELSE by_term(res, i + 1, acc)

\* the reservation items of one input row
SelectReservations(ps, os) ==
    IF LowerOS(os) = "windows"
    THEN LET clear == Filter(ps, 1, {i \in 1..Len(ps) :
                                       ps[i].type = "Reservation" /\ ~HasLicenseMarker(ps[i])})
             all == Filter(ps, 1, {i \in 1..Len(ps) : ps[i].type = "Reservation"})
         IN  by_term(IF clear = <<>> THEN all ELSE clear, 1, <<>>)
    ELSE Filter(ps, 1, {i \in 1..Len(ps) :
                          ps[i].type = "Reservation" /\ matches_os(ps[i], os)})

\* round(a / b, 0) for naturals, ties to the even neighbour
RoundDiv(a, b) ==
    LET q == a \div b
        r == a % b
    IN  IF 2 * r < b THEN q
        ELSE IF 2 * r > b THEN q + 1
        ELSE IF q % 2 = 0 THEN q ELSE q + 1

\* A cost cell: a number with or without a leading "$" (amount in cents),
\* a text that is no number, the empty string, or None.
\* f"${x:,.2f}" is the number x behind a "$".
Money(cents) == [kind |-> "number", sign |-> "$", amount |-> cents]

Unsigned(cents) == [kind |-> "number", sign |-> "", amount |-> cents]

NotANumber == [kind |-> "text", sign |-> "", amount |-> 0]

EmptyCost == [kind |-> "empty", sign |-> "", amount |-> 0]

NoneCost == [kind |-> "none", sign |-> "", amount |-> 0]

HoursPerMonth == 730

\* sku.replace("Standard_", "").lower().replace("_", "-") for a windows row,
\* sku.lower().replace("_", "-") for any other, on the SKU literals of the
\* model, "Standard_D2s_v3" and "Basic_A2"
SanitizedSku(sku, os) ==
    IF LowerOS(os) = "windows"
    THEN (IF sku = "Standard_D2s_v3" THEN "d2s-v3" ELSE "basic-a2")
    ELSE (IF sku = "Standard_D2s_v3" THEN "standard-d2s-v3" ELSE "basic-a2")

\* the report row of a pay-as-you-go item
PaygRow(p, input) ==
    [category |-> "Compute", vm |-> input.vm, region |-> input.region, os |-> input.os,
     sku |-> SanitizedSku(input.sku, input.os),
     description |-> [meter |-> p.meterName, term |-> "", kind |-> "Pay-as-you-go"],
     cost |-> Money(p.unitPrice * HoursPerMonth * 100)]

\* "1" in term, on the term texts of the model and the missing term ""
HasDigitOne(term) == term \in {"1 Year"}

TermMonthsByYears(term) ==
    IF term = "1 Year" THEN 12 ELSE IF term = "3 Years" THEN 36 ELSE 60

\* months = 12 if "1" in term else 36
TermMonths(term) == IF HasDigitOne(term) THEN 12 ELSE 36

\* the report row of a reservation item
ReservationRow(p, input) ==
    [category |-> "Compute", vm |-> input.vm, region |-> input.region, os |-> input.os,
     sku |-> SanitizedSku(input.sku, input.os),
     description |-> [meter |-> p.meterName, term |-> p.reservationTerm,
                      kind |-> "Reservation"],
     cost |-> Money(RoundDiv(p.unitPrice * 100, TermMonths(p.reservationTerm)))]

\* the rows appended to estimate_rows for one input row
RowsFor(input, ps) ==
    IF ps = <<>> THEN <<>>
    ELSE LET pg == SelectPayg(ps, input.os)
             rs == SelectReservations(ps, input.os)
         IN  [i \in 1..Len(pg) |-> PaygRow(pg[i], input)]
             \o [i \in 1..Len(rs) |-> ReservationRow(rs[i], input)]

(***************************************************************************)
(* build_final_dataframes.  A description is held as the parts it is       *)
(* formatted from; the label of a total row is its kind.                   *)
(***************************************************************************)
NoVM == 0

Label(text) == [meter |-> {}, term |-> "", kind |-> text]

LabelRow(category, text, cost) ==
    [category |-> category, vm |-> NoVM, region |-> "", os |-> "", sku |-> "",
     description |-> Label(text), cost |-> cost]

\* {col: '' for col in df.columns}
BlankRow == LabelRow("", "", EmptyCost)

PaygLabels == {"Total Monthly Pay-as-you-go", "Total Yearly Pay-as-you-go",
               "Total 36 Months Pay-as-you-go"}

OneYearLabels == {"Total 1 Year Reservations (Billed monthly)",
                  "Total 1 Year Reservations (Annual cost)",
                  "Annual Savings (1 Year Reservations)"}

TotalLabels == {"Total Monthly Pay-as-you-go",
                "Total 1 Year Reservations (Billed monthly)",
                "Total 3 Year Reservations (Billed monthly)",
                "Total Yearly Pay-as-you-go",
                "Total 1 Year Reservations (Annual cost)",
                "Total 36 Months Pay-as-you-go",
                "Total 3 Year Reservations (3 Year cost)",
                "Total 3 Year Reservations (annual cost)"}

\* 'Pay-as-you-go' in description
DescHasPayg(d) == d.kind = "Pay-as-you-go" \/ d.kind \in PaygLabels

\* '1 Year' in description
DescHas1Year(d) == d.term = "1 Year" \/ d.kind \in OneYearLabels

\* '3 Years' in description
DescHas3Years(d) == d.term = "3 Years"

\* 'Total' in description
DescHasTotal(d) == d.kind \in TotalLabels

\* 'On Demand' in description
DescHasOnDemand(d) == "On Demand" \in d.meter

\* float(cost_str) inside try/except: 0 when the text is no number
ParseOrZero(c) == IF c.kind = "number" THEN c.amount ELSE 0

\* the lambda of cost_numeric: None and '' count 0, any other text is
\* handed to float(), which raises on a text that is no number
CostParses(c) == c.kind # "text"

CostNumeric(c) == IF c.kind = "number" THEN c.amount ELSE 0

RECURSIVE VmPricing(_, _, _)
\* the dict vm_pricing as its items in insertion order
VmPricing(rows, i, acc) ==
    IF i > Len(rows) THEN acc
    ELSE IF DescHasPayg(rows[i].description)
         THEN LET at == {j \in 1..Len(acc) : acc[j].vm = rows[i].vm}
                  v == ParseOrZero(rows[i].cost)
              IN  IF at = {}
                  THEN VmPricing(rows, i + 1, Append(acc, [vm |-> rows[i].vm, payg |-> v]))
                  ELSE VmPricing(rows, i + 1,
                                 [acc EXCEPT ![CHOOSE j \in at : TRUE].payg = v])
         ELSE VmPricing(rows, i + 1, acc)

RECURSIVE InsertByPaygAsc(_, _)
InsertByPaygAsc(s, e) ==
    IF s = <<>> THEN <<e>>
    ELSE IF Head(s).payg <= e.payg
         THEN <<Head(s)>> \o InsertByPaygAsc(Tail(s), e)
         ELSE <<e>> \o s

RECURSIVE InsertByPayg(_, _)
InsertByPayg(s, e) ==
    IF s = <<>> THEN <<e>>
    ELSE IF Head(s).payg >= e.payg
         THEN <<Head(s)>> \o InsertByPayg(Tail(s), e)
         ELSE <<e>> \o s

RECURSIVE SortByPayg(_)
\* sorted(vm_pricing.items(), key=cost, reverse=True): stable
SortByPayg(s) ==
    IF s = <<>> THEN <<>>
    ELSE InsertByPayg(SortByPayg(SubSeq(s, 1, Len(s) - 1)), s[Len(s)])

RECURSIVE SortedRows(_, _, _)
\* per ranked VM its rows in their order, then a blank row; the empty cost
\* of the blank row is replaced by None
SortedRows(rows, ranked, k) ==
    IF k > Len(ranked) THEN <<>>
    ELSE Filter(rows, 1, {i \in 1..Len(rows) : rows[i].vm = ranked[k].vm})
         \o <<[BlankRow EXCEPT !.cost = NoneCost]>>
         \o SortedRows(rows, ranked, k + 1)

RECURSIVE SumCost(_, _, _)
\* the sum of cost_numeric over the rows at the positions in sel
SumCost(rows, i, sel) ==
    IF i > Len(rows) THEN 0
    ELSE (IF i \in sel THEN CostNumeric(rows[i].cost) ELSE 0) + SumCost(rows, i + 1, sel)

TotalsRows(tp, t1, t3) ==
    << LabelRow("Total", "Total Monthly Pay-as-you-go", Money(tp)),
       LabelRow("", "Total 1 Year Reservations (Billed monthly)", Money(t1)),
       LabelRow("", "Total 3 Year Reservations (Billed monthly)", Money(t3)) >>

\* df_final: the ranked rows and the three totals
AsQuoted(rows) ==
    LET sorted == SortedRows(rows, SortByPayg(VmPricing(rows, 1, <<>>)), 1)
        idx == 1..Len(sorted)
    IN  sorted \o TotalsRows(
            SumCost(sorted, 1, {i \in idx : DescHasPayg(sorted[i].description)}),
            SumCost(sorted, 1, {i \in idx : DescHas1Year(sorted[i].description)}),
            SumCost(sorted, 1, {i \in idx : DescHas3Years(sorted[i].description)}))

\* f"${cost}" if not str(cost).startswith('$') else str(cost)
WithDollar(c) == [c EXCEPT !.sign = "$"]

OverrideAllOS(row, wpd) ==
    IF row.sku = "" \/ row.region = "" \/ row.os = ""
    THEN row
    ELSE LET k == <<row.sku, Lower(row.region)>>
         IN  IF k \notin DOMAIN wpd THEN row
             ELSE LET label ==
                          IF DescHasOnDemand(row.description) \/ DescHasPayg(row.description)
                          THEN "On Demand"
                          ELSE IF DescHas1Year(row.description) THEN "1-Year Reserved"
                          ELSE IF DescHas3Years(row.description) THEN "3-Year Reserved"
                          ELSE ""
                  IN  IF label \in DOMAIN wpd[k]
                      THEN [row EXCEPT !.cost = WithDollar(wpd[k][label])]
                      ELSE row

\* one pass of the loop over df_savings: the cost of a windows row whose
\* key is in the secondary mapping is overwritten by the price its
\* description selects, when the mapping holds that price
Override(row, wpd) ==
    IF row.sku = "" \/ row.region = "" \/ row.os = "" \/ LowerOS(row.os) # "windows"
    THEN row
    ELSE LET k == <<row.sku, Lower(row.region)>>
         IN  IF k \notin DOMAIN wpd THEN row
             ELSE LET label ==
                          IF DescHasOnDemand(row.description) \/ DescHasPayg(row.description)
                          THEN "On Demand"
                          ELSE IF DescHas1Year(row.description) THEN "1-Year Reserved"
                          ELSE IF DescHas3Years(row.description) THEN "3-Year Reserved"
                          ELSE ""
                  IN  IF label \in DOMAIN wpd[k]
                      THEN [row EXCEPT !.cost = WithDollar(wpd[k][label])]
                      ELSE row

\* the ten rows appended to df_savings
AdditionalRows(tp, t1, t3) ==
    << BlankRow,
       LabelRow("", "Total Yearly Pay-as-you-go", Money(tp * 12)),
       LabelRow("", "Total 1 Year Reservations (Annual cost)", Money(t1 * 12)),
       LabelRow("", "Annual Savings (1 Year Reservations)", Money(tp * 12 - t1 * 12)),
       BlankRow,
       LabelRow("", "Total 36 Months Pay-as-you-go", Money(tp * 36)),
       LabelRow("", "Total 3 Year Reservations (3 Year cost)", Money(t3 * 36)),
       LabelRow("", "Total 3 Year Reservations (annual cost)", Money(t3 * 12)),
       BlankRow,
       LabelRow("", "3 Year Reservations (Annual Savings)", Money(tp * 12 - t3 * 12)) >>

\* df_savings: df_final with the secondary prices written in, its totals
\* recomputed, and the derived rows appended
Reconciled(final, wpd) ==
    LET over == [i \in 1..Len(final) |-> Override(final[i], wpd)]
        idx == 1..Len(over)
        counted == {i \in idx : over[i].category # "Total"}
        tp == SumCost(over, 1, {i \in counted : DescHasPayg(over[i].description)})
        t1 == SumCost(over, 1, {i \in counted : /\ DescHas1Year(over[i].description)
                                                 /\ ~DescHasTotal(over[i].description)})
        t3 == SumCost(over, 1, {i \in counted : /\ DescHas3Years(over[i].description)
                                                 /\ ~DescHasTotal(over[i].description)})
        upd == [i \in idx |->
                  IF over[i].description = Label("Total Monthly Pay-as-you-go")
                  THEN [over[i] EXCEPT !.cost = Money(tp)]
                  ELSE IF over[i].description = Label("Total 1 Year Reservations (Billed monthly)")
                  THEN [over[i] EXCEPT !.cost = Money(t1)]
                  ELSE IF over[i].description = Label("Total 3 Year Reservations (Billed monthly)")
                  THEN [over[i] EXCEPT !.cost = Money(t3)]
                  ELSE over[i]]
    IN  upd \o AdditionalRows(tp, t1, t3)

\* df_ranked
Ranked(rows) ==
    LET r == SortByPayg(VmPricing(rows, 1, <<>>))
    IN  [k \in 1..Len(r) |-> [vm |-> r[k].vm, payg |-> Money(r[k].payg)]]

\* build_final_dataframes raises when no row is a pay-as-you-go row (the
\* sorted frame then has no cost column) and when a cost written in from
\* the secondary mapping is no number
BuildRaises(rows, wpd) ==
    \/ VmPricing(rows, 1, <<>>) = <<>>
    \/ LET final == AsQuoted(rows)
       IN  \E i \in 1..Len(final) :
              /\ final[i].category # "Total"
              /\ ~CostParses(Override(final[i], wpd).cost)

(***************************************************************************)
(* generate_pricing_spreadsheets and its two threads.                      *)
(***************************************************************************)
InputSKUs == {"Standard_D2s_v3", "Basic_A2"}

InputRows(n) ==
    {r \in [1..n -> [vm : 1..n, region : {"eastus"}, os : {"Windows", "linux"},
                     sku : InputSKUs]] : \A i \in 1..n : r[i].vm = i}

CacheKeys == {<<sku, "eastus">> : sku \in InputSKUs}

\* Phase 1: the SKU-region pairs of the windows rows
UniquePairs(rows) ==
    {<<SanitizedSku(rows[i].sku, rows[i].os), Lower(rows[i].region)>> :
        i \in {j \in 1..Len(rows) : LowerOS(rows[j].os) = "windows"}}

Task(name, obj) == [writers EXCEPT ![obj] = @ \cup {name}]

Names(excs) == {excs[i] : i \in 1..Len(excs)}

\* what get_prices can return for a pair
FullList ==
    << [type |-> "Consumption", productName |-> {"windows"}, meterName |-> {},
        unitPrice |-> 2, reservationTerm |-> ""],
       [type |-> "Consumption", productName |-> {}, meterName |-> {},
        unitPrice |-> 1, reservationTerm |-> ""],
       [type |-> "Reservation", productName |-> {}, meterName |-> {},
        unitPrice |-> 120, reservationTerm |-> "1 Year"],
       [type |-> "Reservation", productName |-> {}, meterName |-> {},
        unitPrice |-> 100, reservationTerm |-> "3 Years"] >>

ReservationOnlyList ==
    << [type |-> "Reservation", productName |-> {}, meterName |-> {},
        unitPrice |-> 120, reservationTerm |-> "1 Year"] >>

\* two windows meters of one SKU, the dearer one listed first
TwoMeterList ==
    << [type |-> "Consumption", productName |-> {"windows"}, meterName |-> {},
        unitPrice |-> 3, reservationTerm |-> ""],
       [type |-> "Consumption", productName |-> {"windows"}, meterName |-> {},
        unitPrice |-> 1, reservationTerm |-> ""] >>

FetchResults == {<<>>, FullList, ReservationOnlyList, TwoMeterList}

InCacheNonEmpty(cache, key) == key \in DOMAIN cache /\ cache[key] # <<>>

\* cache_key in price_cache
InCache(cache, key) == key \in DOMAIN cache

StartAzure ==
    /\ mpc = "start"
    /\ apc' = "running"
    /\ mpc' = "azure_started"
    /\ UNCHANGED <<inputs, spc, a_i, price_cache, a_rows, fetches, s_left, s_data,
                   estimate_rows, windows_pricing_data, exceptions, writers, outputs,
                   df_final, df_savings, df_ranked, matchVars, classVars, groupVars>>

StartSelenium ==
    /\ mpc = "azure_started"
    /\ spc' = "starting"
    /\ mpc' = "join_azure"
    /\ UNCHANGED <<inputs, apc, a_i, price_cache, a_rows, fetches, s_left, s_data,
                   estimate_rows, windows_pricing_data, exceptions, writers, outputs,
                   df_final, df_savings, df_ranked, matchVars, classVars, groupVars>>

\* one iteration of build_azure_pricing's loop; the lookup of a pair not in
\* the cache calls get_prices, which returns a list or raises
AzureRow(fetched, raises) ==
    LET row == inputs[a_i]
        key == <<row.sku, row.region>>
    IN  /\ apc = "running"
        /\ a_i <= Len(inputs)
        /\ IF InCache(price_cache, key)
           THEN /\ fetched = <<>>
                /\ ~raises
                /\ a_rows' = a_rows \o RowsFor(row, price_cache[key])
                /\ a_i' = a_i + 1
                /\ UNCHANGED <<price_cache, fetches, apc, exceptions, writers>>
           ELSE /\ fetches' = [fetches EXCEPT ![key] = @ + 1]
                /\ IF raises
                   THEN /\ fetched = <<>>
                        /\ exceptions' = Append(exceptions, "Azure API")
                        /\ writers' = Task("Azure API", "exceptions")
                        /\ apc' = "done"
                        /\ UNCHANGED <<price_cache, a_rows, a_i>>
                   ELSE /\ price_cache' = (key :> fetched) @@ price_cache
                        /\ a_rows' = a_rows \o RowsFor(row, fetched)
                        /\ a_i' = a_i + 1
                        /\ UNCHANGED <<apc, exceptions, writers>>
        /\ UNCHANGED <<inputs, mpc, spc, s_left, s_data, estimate_rows,
                       windows_pricing_data, outputs, df_final, df_savings, df_ranked,
                       matchVars, classVars, groupVars>>

AzureFinishSharing ==
    /\ apc = "running"
    /\ a_i > Len(inputs)
    /\ estimate_rows' = a_rows
    /\ windows_pricing_data' = <<>>
    /\ writers' = [writers EXCEPT !["estimate_rows"] = @ \cup {"Azure API"},
                                  !["windows_pricing_data"] = @ \cup {"Azure API"}]
    /\ apc' = "done"
    /\ UNCHANGED <<inputs, mpc, spc, a_i, price_cache, a_rows, fetches, s_left, s_data,
                   exceptions, outputs, df_final, df_savings,
                   df_ranked, matchVars, classVars, groupVars>>

\* build_azure_pricing returns: its rows are stored in estimate_rows
AzureFinish ==
    /\ apc = "running"
    /\ a_i > Len(inputs)
    /\ estimate_rows' = a_rows
    /\ writers' = Task("Azure API", "estimate_rows")
    /\ apc' = "done"
    /\ UNCHANGED <<inputs, mpc, spc, a_i, price_cache, a_rows, fetches, s_left, s_data,
                   windows_pricing_data, exceptions, outputs, df_final, df_savings,
                   df_ranked, matchVars, classVars, groupVars>>

\* what one page yields: the bold price texts with the text around them
PageFull ==
    << [price |-> Money(70000), text |-> "on demand"],
       [price |-> Money(45000), text |-> "1-year reserved"],
       [price |-> Money(30000), text |-> "3-year reserved"] >>

PagePartial == << [price |-> Unsigned(70000), text |-> "on demand"] >>

PageText == << [price |-> NotANumber, text |-> "on demand"] >>

Pages == {PageFull, PagePartial, PageText, <<>>}

RECURSIVE PricingData(_, _, _)
\* the dict pricing_data of one page, keyed by the price text
PricingData(page, i, acc) ==
    IF i > Len(page) THEN acc
    ELSE LET at == {j \in 1..Len(acc) : acc[j].price = page[i].price}
         IN  IF at = {}
             THEN PricingData(page, i + 1, Append(acc, page[i]))
             ELSE PricingData(page, i + 1,
                              [acc EXCEPT ![CHOOSE j \in at : TRUE].text = page[i].text])

RECURSIVE FilteredPrices(_, _, _)
\* the labelled prices of one pair
FilteredPrices(pd, i, acc) ==
    IF i > Len(pd) THEN acc
    ELSE LET label == IF pd[i].text = "on demand" THEN "On Demand"
                      ELSE IF pd[i].text = "1-year reserved" THEN "1-Year Reserved"
                      ELSE IF pd[i].text = "3-year reserved" THEN "3-Year Reserved"
                      ELSE ""
         IN  IF label = "" THEN FilteredPrices(pd, i + 1, acc)
             ELSE FilteredPrices(pd, i + 1,
                      (label :> pd[i].price) @@ [l \in DOMAIN acc \ {label} |-> acc[l]])

\* filtered_pricing
FilteredPricing(data) == [k \in DOMAIN data |-> FilteredPrices(data[k], 1, <<>>)]

\* webdriver.Chrome(...) succeeds or raises
SeleniumBegin(raises) ==
    /\ spc = "starting"
    /\ IF raises
       THEN /\ exceptions' = Append(exceptions, "Selenium")
            /\ writers' = Task("Selenium", "exceptions")
            /\ spc' = "done"
            /\ UNCHANGED <<s_left, s_data>>
       ELSE /\ s_left' = UniquePairs(inputs)
            /\ s_data' = <<>>
            /\ spc' = "scraping"
            /\ UNCHANGED <<exceptions, writers>>
    /\ UNCHANGED <<inputs, mpc, apc, a_i, price_cache, a_rows, fetches, estimate_rows,
                   windows_pricing_data, outputs, df_final, df_savings, df_ranked,
                   matchVars, classVars, groupVars>>

\* one iteration of the loop over the pairs: driver.get raises ("navigate"),
\* the extraction raises and is caught ("extract"), or the page is read
ScrapePair(pair, page, failure) ==
    /\ spc = "scraping"
    /\ pair \in s_left
    /\ failure # "" => page = <<>>
    /\ IF failure = "navigate"
       THEN /\ exceptions' = Append(exceptions, "Selenium")
            /\ writers' = Task("Selenium", "exceptions")
            /\ spc' = "done"
            /\ UNCHANGED <<s_left, s_data>>
       ELSE /\ s_left' = s_left \ {pair}
            /\ s_data' = IF failure = "extract" THEN s_data
                         ELSE (pair :> PricingData(page, 1, <<>>)) @@ s_data
            /\ UNCHANGED <<exceptions, writers, spc>>
    /\ UNCHANGED <<inputs, mpc, apc, a_i, price_cache, a_rows, fetches, estimate_rows,
                   windows_pricing_data, outputs, df_final, df_savings, df_ranked,
                   matchVars, classVars, groupVars>>

\* scrape_windows_pricing returns: its mapping is stored in windows_pricing_data
SeleniumFinish ==
    /\ spc = "scraping"
    /\ s_left = {}
    /\ windows_pricing_data' = FilteredPricing(s_data)
    /\ writers' = Task("Selenium", "windows_pricing_data")
    /\ spc' = "done"
    /\ UNCHANGED <<inputs, mpc, apc, a_i, price_cache, a_rows, fetches, s_left, s_data,
                   estimate_rows, exceptions, outputs, df_final, df_savings, df_ranked,
                   matchVars, classVars, groupVars>>

JoinAzure ==
    /\ mpc = "join_azure"
    /\ apc = "done"
    /\ mpc' = "join_selenium"
    /\ UNCHANGED <<inputs, apc, spc, a_i, price_cache, a_rows, fetches, s_left, s_data,
                   estimate_rows, windows_pricing_data, exceptions, writers, outputs,
                   df_final, df_savings, df_ranked, matchVars, classVars, groupVars>>

JoinSeleniumNoWait ==
    /\ mpc = "join_selenium"
    /\ mpc' = "check"
    /\ UNCHANGED <<inputs, apc, spc, a_i, price_cache, a_rows, fetches, s_left, s_data,
                   estimate_rows, windows_pricing_data, exceptions, writers, outputs,
                   df_final, df_savings, df_ranked, matchVars, classVars, groupVars>>

JoinSelenium ==
    /\ mpc = "join_selenium"
    /\ spc = "done"
    /\ mpc' = "check"
    /\ UNCHANGED <<inputs, apc, spc, a_i, price_cache, a_rows, fetches, s_left, s_data,
                   estimate_rows, windows_pricing_data, exceptions, writers, outputs,
                   df_final, df_savings, df_ranked, matchVars, classVars, groupVars>>

\* if exceptions: raise RuntimeError
CheckExceptions ==
    /\ mpc = "check"
    /\ mpc' = IF exceptions # <<>> THEN "failed" ELSE "merge"
    /\ UNCHANGED <<inputs, apc, spc, a_i, price_cache, a_rows, fetches, s_left, s_data,
                   estimate_rows, windows_pricing_data, exceptions, writers, outputs,
                   df_final, df_savings, df_ranked, matchVars, classVars, groupVars>>

ReportFiles == {"azure_estimate.xlsx", "azure_savings_estimate.xlsx", "ranked_vms.xlsx"}

\* the cache of secondary prices is saved, the tables are built and written
Merge ==
    /\ mpc = "merge"
    /\ IF BuildRaises(estimate_rows, windows_pricing_data)
       THEN /\ outputs' = {"azure_windows_pricing_data.json"}
            /\ mpc' = "build_failed"
            /\ UNCHANGED <<df_final, df_savings, df_ranked>>
       ELSE /\ df_final' = AsQuoted(estimate_rows)
            /\ df_savings' = Reconciled(AsQuoted(estimate_rows), windows_pricing_data)
            /\ df_ranked' = Ranked(estimate_rows)
            /\ outputs' = {"azure_windows_pricing_data.json"} \cup ReportFiles
            /\ mpc' = "done"
    /\ UNCHANGED <<inputs, apc, spc, a_i, price_cache, a_rows, fetches, s_left, s_data,
                   estimate_rows, windows_pricing_data, exceptions, writers,
                   matchVars, classVars, groupVars>>

Objects == {"estimate_rows", "windows_pricing_data", "exceptions"}

OrchIdle ==
    /\ inputs = <<>>
    /\ mpc = "idle"
    /\ apc = "idle"
    /\ spc = "idle"
    /\ a_i = 1
    /\ price_cache = <<>>
    /\ a_rows = <<>>
    /\ fetches = [k \in CacheKeys |-> 0]
    /\ s_left = {}
    /\ s_data = <<>>
    /\ estimate_rows = <<>>
    /\ windows_pricing_data = <<>>
    /\ exceptions = <<>>
    /\ writers = [o \in Objects |-> {}]
    /\ outputs = {}
    /\ df_final = <<>>
    /\ df_savings = <<>>
    /\ df_ranked = <<>>

ClassIdle ==
    /\ os_type = ""
    /\ prices = <<>>
    /\ payg = <<>>
    /\ reservations = <<>>
    /\ row_out = <<>>
    /\ cpc = "idle"

NoEntry == [vm |-> NoVM, size |-> "", os |-> "", os_name |-> "", region |-> "",
            tags |-> ""]

GroupIdle ==
    /\ group = <<>>
    /\ vm_entry = NoEntry
    /\ entry_key = <<"", "">>
    /\ gpc = "idle"

NoLast == [key |-> <<"", "">>, quantity |-> 0, before |-> {}, claimed |-> <<>>]

Init ==
    /\ \E inv \in Inventories : vm_pool = BuildPool(inv)
    /\ recommendations = <<>>
    /\ seen_vms = {}
    /\ impact_recs = <<>>
    /\ pc = "matching"
    /\ opps = 0
    /\ last = NoLast
    /\ ClassIdle
    /\ OrchIdle
    /\ GroupIdle

Next ==
    \/ \E sku \in AdvisorSKUs, region \in AdvisorRegions,
          quantity \in Quantities, savings \in SavingsValues :
          MatchOpportunity(sku, region, quantity, savings)
    \/ SortAndSelect

Spec == Init /\ [][Next]_vars

(***************************************************************************)
(* SelectSpec: the match list is what NumBlocks advisor rows leave behind, *)
(* each having claimed up to BlockMax VMs at its own annual savings.       *)
(***************************************************************************)
RECURSIVE BlockRecs(_, _, _)
BlockRecs(blocks, b, firstVm) ==
    IF b > NumBlocks THEN <<>>
    ELSE [i \in 1..blocks[b].n |->
             [vm |-> firstVm + i - 1, savings |-> blocks[b].savings, opp |-> b]]
         \o BlockRecs(blocks, b + 1, firstVm + blocks[b].n)

SelectInit ==
    /\ \E blocks \in [1..NumBlocks -> [n : 0..BlockMax, savings : SavingsValues]] :
          /\ recommendations = BlockRecs(blocks, 1, 1)
          /\ seen_vms = {recommendations[i].vm : i \in 1..Len(recommendations)}
    /\ vm_pool = [k \in PoolKeys |-> <<>>]
    /\ impact_recs = <<>>
    /\ pc = "matching"
    /\ opps = NumBlocks
    /\ last = NoLast
    /\ ClassIdle
    /\ OrchIdle
    /\ GroupIdle

SelectNext == SortAndSelect

SelectSpec == SelectInit /\ [][SelectNext]_vars

(***************************************************************************)
(* ClassifySpec: one input row and the price list looked up for it.        *)
(***************************************************************************)
PriceLists == UNION {[1..n -> Items] : n \in 0..MaxItems}

InputRow(os) == [vm |-> 1, region |-> "eastus", os |-> os, sku |-> "Standard_D2s_v3"]

MatchIdle ==
    /\ vm_pool = [k \in PoolKeys |-> <<>>]
    /\ recommendations = <<>>
    /\ seen_vms = {}
    /\ impact_recs = <<>>
    /\ pc = "idle"
    /\ opps = 0
    /\ last = NoLast

ClassifyInit ==
    /\ os_type \in OSTypes
    /\ prices \in PriceLists
    /\ payg = <<>>
    /\ reservations = <<>>
    /\ row_out = <<>>
    /\ cpc = "fetched"
    /\ MatchIdle
    /\ OrchIdle
    /\ GroupIdle

\* the loop body of build_azure_pricing behind the price lookup
ClassifyRow ==
    /\ cpc = "fetched"
    /\ payg' = IF prices = <<>> THEN <<>> ELSE SelectPayg(prices, os_type)
    /\ reservations' = IF prices = <<>> THEN <<>> ELSE SelectReservations(prices, os_type)
    /\ row_out' = RowsFor(InputRow(os_type), prices)
    /\ cpc' = "emitted"
    /\ UNCHANGED <<os_type, prices, matchVars, orchVars, groupVars>>

ClassifyNext == ClassifyRow

ClassifySpec == ClassifyInit /\ [][ClassifyNext]_vars

(***************************************************************************)
(* OrchSpec: generate_pricing_spreadsheets from the moment the threads are *)
(* created.                                                                 *)
(***************************************************************************)
OrchInit ==
    /\ \E n \in 0..MaxInputs : inputs \in InputRows(n)
    /\ mpc = "start"
    /\ apc = "idle"
    /\ spc = "idle"
    /\ a_i = 1
    /\ price_cache = <<>>
    /\ a_rows = <<>>
    /\ fetches = [k \in CacheKeys |-> 0]
    /\ s_left = {}
    /\ s_data = <<>>
    /\ estimate_rows = <<>>
    /\ windows_pricing_data = <<>>
    /\ exceptions = <<>>
    /\ writers = [o \in Objects |-> {}]
    /\ outputs = {}
    /\ df_final = <<>>
    /\ df_savings = <<>>
    /\ df_ranked = <<>>
    /\ MatchIdle
    /\ ClassIdle
    /\ GroupIdle

OrchNext ==
    \/ StartAzure
    \/ StartSelenium
    \/ \E fetched \in FetchResults, raises \in BOOLEAN : AzureRow(fetched, raises)
    \/ AzureFinish
    \/ \E raises \in BOOLEAN : SeleniumBegin(raises)
    \/ \E pair \in s_left, page \in Pages, failure \in {"", "extract", "navigate"} :
          ScrapePair(pair, page, failure)
    \/ SeleniumFinish
    \/ JoinAzure
    \/ JoinSelenium
    \/ CheckExceptions
    \/ Merge

OrchSpec == OrchInit /\ [][OrchNext]_vars

(***************************************************************************)
(* PoolSpec: the loop body of the pool building for one VM name.  The      *)
(* group holds the rows of the inventory sheet with that name that passed  *)
(* the power state filter, in sheet order.  The sheet has all the columns  *)
(* the loop reads; a cell may be missing (NaN).                            *)
(***************************************************************************)
\* a missing cell; str() of it is "nan"
NaN == "nan"

TagCells ==
    { [name |-> "ApplicationName", value |-> "billing"],
      [name |-> "CostCenter",      value |-> "cc-1"],
      [name |-> "Owner",           value |-> "ops"] }

GroupRows ==
    [size : {NaN, "Standard_D2s_v3"}, os : {NaN, "Windows"},
     os_name : {NaN, "Windows Server 2019"}, location : {NaN, "EastUS"},
     tag : TagCells]

Groups == UNION {[1..n -> GroupRows] : n \in 1..MaxGroupRows}

\* tag_value: the Tag Value of the first ApplicationName row, else of the
\* first CostCenter row, else "Unknown"
TagValue(g) ==
    LET app == {i \in 1..Len(g) : g[i].tag.name = "ApplicationName"}
        cost == {i \in 1..Len(g) : g[i].tag.name \in {"CostCenter", "Cost Center"}}
        first(S) == CHOOSE i \in S : \A j \in S : i <= j
    IN  IF app # {} THEN g[first(app)].tag.value
        ELSE IF cost # {} THEN g[first(cost)].tag.value
        ELSE "Unknown"

\* vm_entry: every field is the cell of the first row, group[...].iloc[0]
VmEntry(vm_name, g) ==
    [vm |-> vm_name, size |-> g[1].size, os |-> g[1].os, os_name |-> g[1].os_name,
     region |-> g[1].location, tags |-> TagValue(g)]

PoolInit ==
    /\ group \in Groups
    /\ vm_entry = NoEntry
    /\ entry_key = <<"", "">>
    /\ gpc = "grouped"
    /\ MatchIdle
    /\ ClassIdle
    /\ OrchIdle

\* one iteration of the loop over grouped_vms
IndexGroup ==
    /\ gpc = "grouped"
    /\ vm_entry' = VmEntry(1, group)
    /\ entry_key' = PoolKey(group[1].size, group[1].location)
    /\ gpc' = "indexed"
    /\ UNCHANGED <<group, matchVars, classVars, orchVars>>

PoolNext == IndexGroup

PoolSpec == PoolInit /\ [][PoolNext]_vars

(***************************************************************************)
(* Properties of the matching loop.                                        *)
(***************************************************************************)
\* the VMs of a pool no earlier advisor row has claimed, in stored order
Unclaimed(pool, seen) == Filter(pool, 1, {i \in 1..Len(pool) : pool[i] \notin seen})

\* C1: no VM name appears in more than one recommendation, neither in the
\* full list (before or after the sort) nor in the selected subset.
C1_NoVMTwice ==
    /\ \A i, j \in 1..Len(recommendations) :
          i # j => recommendations[i].vm # recommendations[j].vm
    /\ \A i, j \in 1..Len(impact_recs) :
          i # j => impact_recs[i].vm # impact_recs[j].vm

\* a later advisor row walked a pool holding VMs claimed before, skipped
\* them and claimed another VM
C1_Witness ==
    /\ opps = 2
    /\ last.before \cap Range(vm_pool[last.key]) # {}
    /\ last.claimed # <<>>

\* C2: an advisor row with quantity q >= 1 claims exactly the first
\* min(q, u) not-yet-claimed VMs of its pool, in stored order, u being the
\* number of VMs of the pool not claimed before; one recommendation is
\* appended per claimed VM.
C2_ClaimsFirstUnclaimed ==
    (opps >= 1 /\ last.quantity >= 1) =>
        LET free == Unclaimed(vm_pool[last.key], last.before)
            k == Min(last.quantity, Len(free))
        IN  /\ last.claimed = Take(free, k)
            /\ seen_vms = last.before \cup Range(Take(free, k))
            /\ pc = "matching" =>
                  /\ Len(recommendations) >= k
                  /\ \A i \in 1..k :
                        LET r == recommendations[Len(recommendations) - k + i]
                        IN  r.vm = free[i] /\ r.opp = opps

\* a second advisor row asks for 2 VMs of a pool with a single VM left
\* and gets exactly that one
C2_Witness ==
    /\ opps = 2
    /\ last.quantity = 2
    /\ Len(vm_pool[last.key]) >= 2
    /\ Len(Unclaimed(vm_pool[last.key], last.before)) = 1
    /\ Len(last.claimed) = 1

\* C3: no advisor row creates more recommendations than its quantity; a
\* row with quantity 0 creates none.
C3_NeverMoreThanQuantity ==
    opps >= 1 => Len(last.claimed) <= last.quantity

(***************************************************************************)
(* Properties of the selection.                                            *)
(***************************************************************************)
CountHigh == Cardinality({i \in 1..Len(recommendations) :
                            recommendations[i].savings >= savings_threshold})

CountAboveFloor == Cardinality({i \in 1..Len(recommendations) :
                                  recommendations[i].savings > BackfillFloor})

MentionsSpot(p) ==
    \E w \in {"spot", "low priority"} : w \in p.productName \cup p.meterName

\* C8: no selected item, pay-as-you-go or reservation, of either OS family
\* mentions spot or low-priority pricing in its product or meter text.
C8_NoSpotItemEmitted ==
    cpc = "emitted" =>
        \A p \in Range(payg) \cup Range(reservations) : ~MentionsSpot(p)

\* the candidate reservation items of a windows row: those without a
\* hybrid/license marker, or all reservation items when there is none
Candidates ==
    LET all == {i \in 1..Len(prices) : prices[i].type = "Reservation"}
        clear == {i \in all : ~HasLicenseMarker(prices[i])}
    IN  IF clear = {} THEN all ELSE clear

\* C9: for a windows row the selection keeps exactly one item per term of
\* the candidates, a candidate of that term with the highest unit price.
C9_WindowsHighestPerTerm ==
    (cpc = "emitted" /\ LowerOS(os_type) = "windows") =>
        /\ \A i \in Candidates :
              Cardinality({j \in 1..Len(reservations) :
                  reservations[j].reservationTerm = prices[i].reservationTerm}) = 1
        /\ \A j \in 1..Len(reservations) :
              /\ \E i \in Candidates : prices[i] = reservations[j]
              /\ \A i \in Candidates :
                    prices[i].reservationTerm = reservations[j].reservationTerm
                        => prices[i].unitPrice <= reservations[j].unitPrice

\* two clear "1 Year" items at 100 and 120: only the one at 120 is kept
C9_Witness ==
    /\ cpc = "emitted"
    /\ LowerOS(os_type) = "windows"
    /\ \E i, k \in Candidates :
          /\ ~HasLicenseMarker(prices[i])
          /\ prices[i].reservationTerm = "1 Year" /\ prices[i].unitPrice = 100
          /\ prices[k].reservationTerm = "1 Year" /\ prices[k].unitPrice = 120
    /\ Len(reservations) = 1
    /\ reservations[1].unitPrice = 120

(***************************************************************************)
(* Properties of the orchestrator.                                         *)
(***************************************************************************)
NoReportYet ==
    outputs = {} /\ df_final = <<>> /\ df_savings = <<>> /\ df_ranked = <<>>

\* C5: the merge starts only after both threads have finished; when a
\* thread has raised, the run fails after both have finished, nothing is
\* merged or written, and the other thread was not stopped or skipped.
C5_MergeOnlyAfterBoth ==
    /\ (mpc \in {"merge", "done", "build_failed"} \/ ~NoReportYet) =>
          apc = "done" /\ spc = "done" /\ exceptions = <<>>
    /\ mpc = "failed" =>
          apc = "done" /\ spc = "done" /\ exceptions # <<>> /\ NoReportYet
    /\ (mpc = "failed" /\ "Selenium" \notin Names(exceptions)) =>
          s_left = {} /\ "Selenium" \in writers["windows_pricing_data"]
    /\ (mpc = "failed" /\ "Azure API" \notin Names(exceptions)) =>
          a_i = Len(inputs) + 1 /\ estimate_rows = a_rows

\* the Azure API thread raised, the Selenium thread still scraped its pairs,
\* and the run failed without a report
C5_Witness ==
    /\ mpc = "failed"
    /\ Names(exceptions) = {"Azure API"}
    /\ DOMAIN windows_pricing_data # {}
    /\ NoReportYet

\* C6 as stated: no object is written by both threads.
C6_NoObjectWrittenByBoth ==
    \A o \in Objects : Cardinality(writers[o]) <= 1

\* C6, amended: each thread stores its result in its own container only;
\* the one object both threads may write is the list of failures, to which
\* a thread appends its name when it raises.
C6_OnlyFailureListShared ==
    /\ writers["estimate_rows"] \subseteq {"Azure API"}
    /\ writers["windows_pricing_data"] \subseteq {"Selenium"}
    /\ writers["exceptions"] = Names(exceptions)

\* both threads have stored their results
C6_Witness ==
    /\ writers["estimate_rows"] = {"Azure API"}
    /\ writers["windows_pricing_data"] = {"Selenium"}
    /\ estimate_rows # <<>>
    /\ DOMAIN windows_pricing_data # {}

\* C7: get_prices is called at most once per (sku, region); a pair that was
\* looked up, with or without items, is in the cache.
C7_FetchAtMostOnce ==
    \A k \in CacheKeys :
        /\ fetches[k] <= 1
        /\ (apc = "running" /\ fetches[k] = 1) => k \in DOMAIN price_cache
        /\ k \in DOMAIN price_cache => fetches[k] = 1

\* two rows of the same pair were looked up, the fetch returned no items
C7_Witness ==
    /\ Len(inputs) >= 2
    /\ a_i > 2
    /\ <<inputs[1].sku, inputs[1].region>> = <<inputs[2].sku, inputs[2].region>>
    /\ price_cache[<<inputs[1].sku, inputs[1].region>>] = <<>>
    /\ fetches[<<inputs[1].sku, inputs[1].region>>] = 1

(***************************************************************************)
(* Properties of the reconciled table.                                     *)
(***************************************************************************)
\* the secondary price a per-VM row's description asks for
NeededLabel(row) ==
    IF row.description.kind = "Pay-as-you-go" THEN "On Demand"
    ELSE IF row.description.term = "1 Year" THEN "1-Year Reserved"
    ELSE "3-Year Reserved"

RowKey(row) == <<row.sku, Lower(row.region)>>

NoSecondaryMatch(row) ==
    \/ LowerOS(row.os) # "windows"
    \/ RowKey(row) \notin DOMAIN windows_pricing_data
    \/ NeededLabel(row) \notin DOMAIN windows_pricing_data[RowKey(row)]

\* C10: a per-VM row that is not a windows row, or whose key the secondary
\* mapping lacks, or whose entry lacks the price its description asks for,
\* keeps its cost; and no row differs from its as-quoted row in any field
\* other than the cost.
C10_UnmatchedRowsKeepCost ==
    mpc = "done" =>
        /\ Len(df_savings) >= Len(df_final)
        /\ \A i \in 1..Len(df_final) :
              /\ [df_savings[i] EXCEPT !.cost = df_final[i].cost] = df_final[i]
              /\ (df_final[i].category = "Compute" /\ NoSecondaryMatch(df_final[i]))
                    => df_savings[i].cost = df_final[i].cost

\* a windows row whose key the secondary mapping lacks keeps its cost, next
\* to a row whose cost was overwritten
C10_Witness ==
    /\ mpc = "done"
    /\ \E i, j \in 1..Len(df_final) :
          /\ df_final[i].category = "Compute"
          /\ LowerOS(df_final[i].os) = "windows"
          /\ RowKey(df_final[i]) \notin DOMAIN windows_pricing_data
          /\ df_savings[i].cost = df_final[i].cost
          /\ df_final[j].category = "Compute"
          /\ df_savings[j].cost # df_final[j].cost

(***************************************************************************)
(* Properties of the numeric parses in build_final_dataframes.             *)
(***************************************************************************)
\* a cost of the reconciled table, after the secondary prices were written
\* in, is a text that is no number
UnparsableCostWritten ==
    LET final == AsQuoted(estimate_rows)
    IN  /\ VmPricing(estimate_rows, 1, <<>>) # <<>>
        /\ \E i \in 1..Len(final) :
              ~CostParses(Override(final[i], windows_pricing_data).cost)

\* C11: a cost that is not parsable as a number counts as zero in the sort
\* key and in the totals; it never fails the aggregation or the run.
C11_UnparsableCostNeverFailsRun ==
    (mpc \in {"done", "build_failed"} /\ UnparsableCostWritten) => mpc = "done"

(***************************************************************************)
(* Properties of scrape_windows_pricing.                                   *)
(***************************************************************************)
\* the secondary thread has ended after it began the loop over the pairs
ScrapeLoopEnded ==
    /\ spc = "done"
    /\ s_left # {} \/ "Selenium" \notin Names(exceptions)

\* C12: a failure while one pair is processed never aborts the batch: every
\* other pair keeps its extracted prices, and the failing pair is in the
\* result, mapped to an empty sub-mapping.
C12_PairFailureIsolated ==
    ScrapeLoopEnded =>
        /\ DOMAIN windows_pricing_data = UniquePairs(inputs)
        /\ \A k \in DOMAIN windows_pricing_data :
              windows_pricing_data[k] =
                  IF k \in DOMAIN s_data THEN FilteredPrices(s_data[k], 1, <<>>)
                  ELSE <<>>

(***************************************************************************)
(* Properties of the order of the full list.                               *)
(***************************************************************************)
\* the position of r in the list s of distinct elements
PositionIn(s, r) == CHOOSE i \in 1..Len(s) : s[i] = r

\* C13: the sort leaves the full list ordered by annual savings, largest
\* first, with the same recommendations, and recommendations of equal
\* savings keep the order in which they were claimed.
C13_SortedDescendingStable ==
    [][(pc = "matching" /\ pc' = "done") =>
          /\ Len(recommendations') = Len(recommendations)
          /\ Range(recommendations') = Range(recommendations)
          /\ \A i, j \in 1..Len(recommendations') :
                i < j =>
                   /\ recommendations'[i].savings >= recommendations'[j].savings
                   /\ recommendations'[i].savings = recommendations'[j].savings
                         => PositionIn(recommendations, recommendations'[i])
                              < PositionIn(recommendations, recommendations'[j])]_vars

\* the sort has moved a later claim in front of earlier ones, and two
\* recommendations tie
C13_Witness ==
    /\ pc = "done"
    /\ \E i, j \in 1..Len(recommendations) :
          /\ i < j
          /\ recommendations[i].opp > recommendations[j].opp
    /\ \E i, j \in 1..Len(recommendations) :
          /\ i < j
          /\ recommendations[i].savings = recommendations[j].savings

(***************************************************************************)
(* Properties of the monthly costs.                                        *)
(***************************************************************************)
\* c cents is total / months rounded to the cent, total in cents
NearestCent(c, total, months) ==
    LET d == c * months - total
    IN  2 * (IF d < 0 THEN 0 - d ELSE d) <= months

\* C14: the cost of a pay-as-you-go row is the unit price times 730, the
\* cost of a reservation row is the unit price divided by 12 when the term
\* text contains "1" and by 36 otherwise, each rounded to two decimals.
C14_MonthlyCosts ==
    cpc = "emitted" =>
        /\ Len(row_out) = Len(payg) + Len(reservations)
        /\ \A i \in 1..Len(payg) :
              row_out[i].cost = Money(payg[i].unitPrice * 730 * 100)
        /\ \A j \in 1..Len(reservations) :
              LET p == reservations[j]
                  c == row_out[Len(payg) + j].cost
              IN  /\ c.kind = "number"
                  /\ c.sign = "$"
                  /\ NearestCent(c.amount, p.unitPrice * 100,
                                 IF p.reservationTerm = "1 Year" THEN 12 ELSE 36)

\* a pay-as-you-go row next to a "5 Years" row at 100 / 36, which is no
\* whole number of cents and is rounded up
C14_Witness ==
    /\ cpc = "emitted"
    /\ Len(payg) > 0
    /\ \E j \in 1..Len(reservations) :
          /\ reservations[j].reservationTerm = "5 Years"
          /\ reservations[j].unitPrice = 100
          /\ row_out[Len(payg) + j].cost = Money(278)

(***************************************************************************)
(* Properties of the pool building.                                        *)
(***************************************************************************)
\* the first cell of the column that is not missing, NaN when all are
FirstNonNull(cells) ==
    LET S == {i \in 1..Len(cells) : cells[i] # NaN}
    IN  IF S = {} THEN NaN ELSE cells[CHOOSE i \in S : \A j \in S : i <= j]

\* C15: size, OS family, OS name and region of a VM's entry are each the
\* first non-null value among the rows of its group; a null in the first
\* row is skipped when a later row has a value.
C15_FirstNonNullWins ==
    gpc = "indexed" =>
        /\ vm_entry.size = FirstNonNull([i \in 1..Len(group) |-> group[i].size])
        /\ vm_entry.os = FirstNonNull([i \in 1..Len(group) |-> group[i].os])
        /\ vm_entry.os_name = FirstNonNull([i \in 1..Len(group) |-> group[i].os_name])
        /\ vm_entry.region = FirstNonNull([i \in 1..Len(group) |-> group[i].location])

(***************************************************************************)
(* Properties of the as-quoted table and the ranked table.                 *)
(***************************************************************************)
IsVmRow(r) == r.vm # NoVM

IsBlank(r) == r.vm = NoVM /\ r.category = "" /\ r.description = Label("")

\* the positions of the as-quoted table in front of its last three rows
Body == 1..(Len(df_final) - 3)

BlankPositions == {i \in Body : IsBlank(df_final[i])}

\* C16: in the as-quoted table the rows of a VM are contiguous and followed
\* by exactly one blank row, the groups stand in non-increasing order of
\* the VM's pay-as-you-go monthly cost, the three totals rows come last,
\* and the ranked table lists the same VMs in the same order.
C16_GroupedRankedTable ==
    mpc = "done" =>
        LET n == Len(df_final)
        IN  /\ n >= 3
            /\ [k \in 1..3 |-> df_final[n - 3 + k].description.kind]
                  = << "Total Monthly Pay-as-you-go",
                       "Total 1 Year Reservations (Billed monthly)",
                       "Total 3 Year Reservations (Billed monthly)" >>
            /\ \A i \in Body : IsVmRow(df_final[i]) \/ IsBlank(df_final[i])
            /\ \A i, k \in Body :
                  (i < k /\ IsVmRow(df_final[i]) /\ df_final[k].vm = df_final[i].vm)
                     => \A j \in i..k : df_final[j].vm = df_final[i].vm
            /\ \A i \in Body :
                  IsVmRow(df_final[i]) =>
                     /\ i + 1 \in Body
                     /\ df_final[i + 1].vm = df_final[i].vm \/ IsBlank(df_final[i + 1])
            /\ \A i \in BlankPositions : i > 1 /\ IsVmRow(df_final[i - 1])
            /\ Len(df_ranked) = Cardinality(BlankPositions)
            /\ \A i \in BlankPositions :
                  df_ranked[Cardinality({j \in BlankPositions : j <= i})].vm
                     = df_final[i - 1].vm
            /\ \A k, l \in 1..Len(df_ranked) :
                  k < l => df_ranked[k].payg.amount >= df_ranked[l].payg.amount
            /\ \A k \in 1..Len(df_ranked) :
                  \E i \in Body :
                     /\ df_final[i].vm = df_ranked[k].vm
                     /\ DescHasPayg(df_final[i].description)
                     /\ df_final[i].cost = df_ranked[k].payg
                     /\ \A j \in Body :
                           (j > i /\ df_final[j].vm = df_ranked[k].vm)
                              => ~DescHasPayg(df_final[j].description)

\* two VMs of different cost, the dearer one priced second and ranked
\* first, one of them with several rows
C16_Witness ==
    /\ mpc = "done"
    /\ Len(df_ranked) = 2
    /\ df_ranked[1].vm > df_ranked[2].vm
    /\ df_ranked[1].payg.amount > df_ranked[2].payg.amount
    /\ Len(df_final) > 7

(***************************************************************************)
(* Properties of a VM without a pay-as-you-go row.                         *)
(***************************************************************************)
\* the VMs with a row in estimate_rows but no pay-as-you-go row
VMsWithoutPayg ==
    {estimate_rows[i].vm : i \in 1..Len(estimate_rows)}
       \ {estimate_rows[i].vm : i \in {j \in 1..Len(estimate_rows) :
                                         DescHasPayg(estimate_rows[j].description)}}

\* the sum of the costs of the rows whose term is t
TermTotal(rows, t) ==
    SumCost(rows, 1, {i \in 1..Len(rows) : rows[i].description.term = t})

\* C17: a VM with rows but no pay-as-you-go row has all its rows in the
\* as-quoted table, behind every VM that has a pay-as-you-go row, and its
\* reservation costs are counted in the 1-year and 3-year totals.
C17_VMWithoutPaygKept ==
    mpc = "done" =>
        LET n == Len(df_final)
        IN  /\ \A i \in 1..Len(estimate_rows) :
                  estimate_rows[i].vm \in VMsWithoutPayg
                     => /\ \E j \in 1..n : df_final[j] = estimate_rows[i]
                        /\ \A j, k \in 1..n :
                              (df_final[j] = estimate_rows[i]
                                 /\ IsVmRow(df_final[k])
                                 /\ df_final[k].vm \notin VMsWithoutPayg) => k < j
            /\ df_final[n - 1].cost = Money(TermTotal(estimate_rows, "1 Year"))
            /\ df_final[n].cost = Money(TermTotal(estimate_rows, "3 Years"))

(***************************************************************************)
(* Properties of the selected subset within the sorted list.               *)
(***************************************************************************)
\* C18: the selected subset, backfill included, is a prefix of the full
\* list sorted by annual savings, largest first: its items keep the sorted
\* order and no unselected recommendation has higher savings than a
\* selected one.
C18_SelectionIsPrefix ==
    pc = "done" =>
        /\ \A i, j \in 1..Len(recommendations) :
              i < j => recommendations[i].savings >= recommendations[j].savings
        /\ Len(impact_recs) <= Len(recommendations)
        /\ impact_recs = SubSeq(recommendations, 1, Len(impact_recs))
        /\ \A r \in Range(recommendations) \ Range(impact_recs) :
              \A q \in Range(impact_recs) : r.savings <= q.savings

\* the backfill has taken some of the recommendations below the threshold
\* and left others of them unselected
C18_Witness ==
    /\ pc = "done"
    /\ CountHigh > 0
    /\ Len(impact_recs) > CountHigh
    /\ Len(impact_recs) < Len(recommendations)
    /\ recommendations[Len(impact_recs) + 1].savings > BackfillFloor

====
